---- MODULE Spec2Model ----
(***************************************************************************)
(* Model of scripts/generate_ics.py (event-to-calendar skill).             *)
(*                                                                         *)
(* A Python str is modelled as a sequence of one-character strings, so     *)
(* that escaping, folding, parsing and formatting work on characters.      *)
(* Python's None is the value None below.                                  *)
(***************************************************************************)
EXTENDS Integers, Sequences, FiniteSets, TLC

VARIABLES e_pc, e_text, e_out, e_out2,      \* escape_text: position, argument, results
          f_pc, f_line, f_max, f_out,       \* fold_line: position, arguments, result
          f_result, f_current,              \*   its locals result and current
          d_pc, d_base, d_suffix, d_tz,     \* format_datetime: position, dt_str = base + suffix, timezone
          d_out, d_exit, d_err,             \*   result, exit status, standard error
          libc_pads_year,                   \* platform: strftime('%Y') pads years below 1000
          pc,                               \* generate_ics / main: position
          argv,                             \* the command line: option -> value, Absent if not given
          args,                             \* generate_ics's parameters
          uid, dtstamp,                     \* locals of generate_ics
          dtstart_formatted, dtend_formatted,
          lines, ics_content,
          ret,                              \* generate_ics's return value
          stdout, stderr,                   \* what has been printed, in order
          file,                             \* the content of the file at output_path, None if none
          exit_status,                      \* the process's exit status, Running while it runs
          uuid_issued,                      \* random source: the UUIDs uuid.uuid4() has returned
          now, clock_reads,                 \* system clock: its reading, and how often it was read
          fs_writable,                      \* file system: output_path can be written
          history                           \* the calls of generate_ics that have returned, in order

escape_vars == <<e_pc, e_text, e_out, e_out2>>
fold_vars == <<f_pc, f_line, f_max, f_out, f_result, f_current>>
datetime_vars == <<d_pc, d_base, d_suffix, d_tz, d_out, d_exit, d_err>>
run_vars == <<pc, argv, args, uid, dtstamp, dtstart_formatted, dtend_formatted, lines,
              ics_content, ret, stdout, stderr, file, exit_status, uuid_issued, now,
              clock_reads, fs_writable, history>>
vars == <<escape_vars, fold_vars, datetime_vars, libc_pads_year, run_vars>>

\* ------------------------------------------------------------------ values

\* Python's None: a tuple that no text and no list of the model equals (the
\* texts of the model never spell it, and its lists are shorter).
None == <<"<", "N", "o", "n", "e", ">">>

\* The exit status of a process that has not exited.
Running == -1

\* Python truthiness of a str, a list or None.
Truthy(x) == x # None /\ x # <<>>

BSL == "\\"
LF == "\n"
CR == "\r"

\* All sequences over S of length at most n.
RECURSIVE SeqsUpTo(_, _)
SeqsUpTo(S, n) ==
    IF n = 0 THEN {<<>>}
    ELSE LET shorter == SeqsUpTo(S, n - 1)
         IN  shorter \cup {Append(s, c) : s \in {t \in shorter : Len(t) = n - 1}, c \in S}

\* n copies of the character c.
Rep(c, n) == [i \in 1..n |-> c]

\* The concatenation of the sequences of a sequence.
RECURSIVE Flatten(_)
Flatten(ss) == IF ss = <<>> THEN <<>> ELSE Head(ss) \o Flatten(Tail(ss))

\* str.join: the parts with sep between each two neighbours.
RECURSIVE str_join(_, _)
str_join(sep, parts) ==
    IF parts = <<>> THEN <<>>
    ELSE IF Len(parts) = 1 THEN Head(parts)
    ELSE Head(parts) \o sep \o str_join(sep, Tail(parts))

CRLF == <<CR, LF>>

\* --------------------------------------------------------------- fold_line

\* The default of fold_line's max_length parameter.
DefaultMaxLength == 75

\* s[:n] and s[n:] of Python, for 0 <= n.
Prefix(s, n) == SubSeq(s, 1, IF n < Len(s) THEN n ELSE Len(s))
Suffix(s, n) == SubSeq(s, n + 1, Len(s))

\* Mutant: the remainder is carried over without the leading space.
fold_body_no_space(st, max_length) ==
    [result  |-> Append(st.result, Prefix(st.current, max_length)),
     current |-> Suffix(st.current, max_length)]

\* Mutant: the continuation begins with a tab.
fold_body_tab(st, max_length) ==
    [result  |-> Append(st.result, Prefix(st.current, max_length)),
     current |-> <<"\t">> \o Suffix(st.current, max_length)]

\* Mutant: the cut loses the character after the break point.
fold_body_skips_character(st, max_length) ==
    [result  |-> Append(st.result, Prefix(st.current, max_length)),
     current |-> <<" ">> \o Suffix(st.current, max_length + 1)]

\* One pass of the while body: cut max_length characters off current, keep
\* them as a segment, and prefix what is left with one space.
fold_body(st, max_length) ==
    [result  |-> Append(st.result, Prefix(st.current, max_length)),
     current |-> <<" ">> \o Suffix(st.current, max_length)]

\* The while loop, then result.append(current). It ends for max_length >= 2
\* (each pass shortens current by max_length - 1).
RECURSIVE fold_loop(_, _)
fold_loop(st, max_length) ==
    IF Len(st.current) > max_length
    THEN fold_loop(fold_body(st, max_length), max_length)
    ELSE Append(st.result, st.current)

\* Mutant: a line of exactly max_length characters is folded too.
RECURSIVE fold_loop_at_limit(_, _)
fold_loop_at_limit(st, max_length) ==
    IF Len(st.current) >= max_length
    THEN fold_loop_at_limit(fold_body(st, max_length), max_length)
    ELSE Append(st.result, st.current)

fold_line_at_limit(line, max_length) ==
    IF Len(line) < max_length THEN line
    ELSE str_join(CRLF, fold_loop_at_limit([result |-> <<>>, current |-> line], max_length))

fold_line(line, max_length) ==
    IF Len(line) <= max_length THEN line
    ELSE str_join(CRLF, fold_loop([result |-> <<>>, current |-> line], max_length))

\* ------------------------------------------------------------- escape_text

\* str.replace(old, new) for a one-character old: every occurrence, left to right.
RECURSIVE str_replace(_, _, _)
str_replace(text, old, new) ==
    LET at == {i \in 1..Len(text) : text[i] = old}
        first == CHOOSE i \in at : \A j \in at : i <= j
    IN  IF at = {} THEN text
        ELSE SubSeq(text, 1, first - 1) \o new
             \o str_replace(SubSeq(text, first + 1, Len(text)), old, new)

\* Mutant: the backslash is escaped last, after the other three replacements.
escape_text_backslash_last(text) ==
    IF ~Truthy(text) THEN <<>>
    ELSE str_replace(
           str_replace(
             str_replace(
               str_replace(text, ",", <<BSL, ",">>),
               ";", <<BSL, ";">>),
             LF, <<BSL, "n">>),
           BSL, <<BSL, BSL>>)

\* Mutant: the backslash replacement is left out.
escape_text_no_backslash(text) ==
    IF ~Truthy(text) THEN <<>>
    ELSE str_replace(
           str_replace(
             str_replace(text, ",", <<BSL, ",">>),
             ";", <<BSL, ";">>),
           LF, <<BSL, "n">>)

escape_text(text) ==
    IF ~Truthy(text) THEN <<>>
    ELSE str_replace(
           str_replace(
             str_replace(
               str_replace(text, BSL, <<BSL, BSL>>),
               ",", <<BSL, ",">>),
             ";", <<BSL, ";">>),
           LF, <<BSL, "n">>)

\* --------------------------------------------------------- format_datetime

Digits == <<"0", "1", "2", "3", "4", "5", "6", "7", "8", "9">>

IsDigit(c) == \E i \in 1..10 : Digits[i] = c
DigitVal(c) == (CHOOSE i \in 1..10 : Digits[i] = c) - 1
AllDigits(s) == \A i \in 1..Len(s) : IsDigit(s[i])

\* int(s) for a string of decimal digits.
RECURSIVE py_int(_)
py_int(s) ==
    IF s = <<>> THEN 0
    ELSE py_int(SubSeq(s, 1, Len(s) - 1)) * 10 + DigitVal(s[Len(s)])

\* c in s, s.count(c) and s.find(c) + 1 (0 when c does not occur).
Contains(s, c) == \E i \in 1..Len(s) : s[i] = c
Count(s, c) == Cardinality({i \in 1..Len(s) : s[i] = c})
FindPos(s, c) ==
    IF Contains(s, c) THEN CHOOSE i \in 1..Len(s) : s[i] = c /\ \A j \in 1..(i - 1) : s[j] # c
    ELSE 0

IsLeap(y) == (y % 4 = 0 /\ y % 100 # 0) \/ y % 400 = 0

DaysInMonth(y, m) ==
    IF m = 2 THEN (IF IsLeap(y) THEN 29 ELSE 28)
    ELSE IF m \in {4, 6, 9, 11} THEN 30 ELSE 31

NoTime == [ok |-> FALSE, hour |-> 0, minute |-> 0, second |-> 0]
NoDatetime == [ok |-> FALSE, year |-> 0, month |-> 0, day |-> 0,
               hour |-> 0, minute |-> 0, second |-> 0]

\* HH[:MM[:SS[.fff[fff]]]] : the components, the fraction checked and dropped
\* (strftime below prints no fraction).
parse_hh_mm_ss_ff(t) ==
    LET n == Len(t)
        two(i) == SubSeq(t, i, i + 1)
        shape ==
            \/ n = 2
            \/ n = 5 /\ t[3] = ":"
            \/ n = 8 /\ t[3] = ":" /\ t[6] = ":"
            \/ n \in {12, 15} /\ t[3] = ":" /\ t[6] = ":" /\ t[9] = "."
                 /\ AllDigits(SubSeq(t, 10, n))
    IN  IF ~shape \/ ~AllDigits(two(1)) THEN NoTime
        ELSE IF n >= 5 /\ ~AllDigits(two(4)) THEN NoTime
        ELSE IF n >= 8 /\ ~AllDigits(two(7)) THEN NoTime
        ELSE [ok |-> TRUE,
              hour |-> py_int(two(1)),
              minute |-> IF n >= 5 THEN py_int(two(4)) ELSE 0,
              second |-> IF n >= 8 THEN py_int(two(7)) ELSE 0]

\* The one element of a one-element set. Results that are used several times
\* are bound as x \in {e}, so that e is worked out once.
The(S) == CHOOSE x \in S : TRUE

\* The time part of an ISO string: the clock time up to the first '-' (or,
\* with no '-', the first '+'), and after it a UTC offset HH:MM[:SS[.ffffff]]
\* of less than 24 hours. The offset is checked; the clock time is returned
\* as written.
parse_isoformat_time(tstr) ==
    LET minus == FindPos(tstr, "-")
        tz_pos == IF minus > 0 THEN minus ELSE FindPos(tstr, "+")
        timestr == IF tz_pos > 0 THEN SubSeq(tstr, 1, tz_pos - 1) ELSE tstr
        tzstr == SubSeq(tstr, tz_pos + 1, Len(tstr))
    IN  The({ IF Len(tstr) < 2 \/ ~comps.ok THEN NoTime
              ELSE IF tz_pos = 0 THEN comps
              ELSE The({ IF Len(tzstr) \notin {5, 8, 15} \/ ~tz.ok THEN NoTime
                         ELSE IF tz.hour * 3600 + tz.minute * 60 + tz.second >= 86400
                              THEN NoTime
                         ELSE comps
                         : tz \in {parse_hh_mm_ss_ff(tzstr)} })
              : comps \in {parse_hh_mm_ss_ff(timestr)} })

\* datetime.fromisoformat for the documented format
\* YYYY-MM-DD[*HH[:MM[:SS[.fff[fff]]]][+HH:MM[:SS[.ffffff]]]], * any one
\* character; the datetime constructor's range checks included. The result
\* carries the date and clock time as written; an offset is not applied.
fromisoformat(s) ==
    LET date_ok ==
            /\ Len(s) >= 10
            /\ AllDigits(SubSeq(s, 1, 4)) /\ s[5] = "-"
            /\ AllDigits(SubSeq(s, 6, 7)) /\ s[8] = "-"
            /\ AllDigits(SubSeq(s, 9, 10))
    IN  IF ~date_ok THEN NoDatetime
        ELSE The({
            IF ~(year \in 1..9999 /\ month \in 1..12 /\ day \in 1..DaysInMonth(year, month))
                 THEN NoDatetime
            ELSE IF ~time.ok THEN NoDatetime
            ELSE IF ~(time.hour \in 0..23 /\ time.minute \in 0..59 /\ time.second \in 0..59)
                 THEN NoDatetime
            ELSE [ok |-> TRUE, year |-> year, month |-> month, day |-> day,
                  hour |-> time.hour, minute |-> time.minute, second |-> time.second]
            : year \in {py_int(SubSeq(s, 1, 4))},
              month \in {py_int(SubSeq(s, 6, 7))},
              day \in {py_int(SubSeq(s, 9, 10))},
              time \in {IF Len(s) = 10
                        THEN [ok |-> TRUE, hour |-> 0, minute |-> 0, second |-> 0]
                        ELSE parse_isoformat_time(SubSeq(s, 12, Len(s)))} })

\* The decimal digits of n >= 0, without padding.
RECURSIVE Decimal(_)
Decimal(n) == IF n < 10 THEN <<Digits[n + 1]>> ELSE Decimal(n \div 10) \o <<Digits[(n % 10) + 1]>>

\* n printed in at least w digits, zero-padded.
ZeroPad(n, w) == Rep("0", w - Len(Decimal(n))) \o Decimal(n)

\* '%Y' of the platform's strftime: four digits where the C library pads,
\* the bare decimal (fewer than four digits for years below 1000) where it
\* does not (glibc).
strftime_Y(year, pads) == IF pads THEN ZeroPad(year, 4) ELSE Decimal(year)

\* dt.strftime('%Y%m%dT%H%M%S')
strftime(dt, pads) ==
    strftime_Y(dt.year, pads) \o ZeroPad(dt.month, 2) \o ZeroPad(dt.day, 2) \o <<"T">>
    \o ZeroPad(dt.hour, 2) \o ZeroPad(dt.minute, 2) \o ZeroPad(dt.second, 2)

\* format_datetime(dt_str, timezone): [ok, val]; ok is FALSE where the code
\* prints the parse error and calls sys.exit(1).
format_datetime(dt_str, timezone) ==
    The({ IF dt.ok THEN [ok |-> TRUE, val |-> strftime(dt, libc_pads_year)]
          ELSE [ok |-> FALSE, val |-> None]
          : dt \in { fromisoformat(x)
                     : x \in { IF \/ Contains(dt_str, "Z")
                                  \/ Contains(dt_str, "+")
                                  \/ Count(dt_str, "-") > 2
                               THEN str_replace(dt_str, "Z", <<"+", "0", "0", ":", "0", "0">>)
                               ELSE dt_str } } })

\* The line format_datetime prints to standard error before it exits.
DatetimeDiagnostic(dt_str) == [msg |-> "Error parsing datetime", dt_str |-> dt_str]

\* ------------------------------------------------------------ generate_ics

\* str(v) as an f-string's {v} gives it: 'None' for None, the string itself otherwise.
fstr(v) == IF v = None THEN <<"N", "o", "n", "e">> ELSE v

UpperCase == <<"A", "B", "C", "D", "E", "F", "G", "H", "I", "J", "K", "L", "M",
               "N", "O", "P", "Q", "R", "S", "T", "U", "V", "W", "X", "Y", "Z">>
LowerCase == <<"a", "b", "c", "d", "e", "f", "g", "h", "i", "j", "k", "l", "m",
               "n", "o", "p", "q", "r", "s", "t", "u", "v", "w", "x", "y", "z">>

\* str.lower(), on ASCII letters.
lower(s) ==
    [i \in 1..Len(s) |->
        IF \E k \in 1..26 : UpperCase[k] = s[i]
        THEN LowerCase[CHOOSE k \in 1..26 : UpperCase[k] = s[i]]
        ELSE s[i]]

\* str.endswith(suffix)
endswith(s, suffix) ==
    Len(s) >= Len(suffix) /\ SubSeq(s, Len(s) - Len(suffix) + 1, Len(s)) = suffix

BEGIN_VCALENDAR == <<"B", "E", "G", "I", "N", ":", "V", "C", "A", "L", "E", "N", "D", "A", "R">>
VERSION_LINE == <<"V", "E", "R", "S", "I", "O", "N", ":", "2", ".", "0">>
PRODID_LINE == <<"P", "R", "O", "D", "I", "D", ":", "-", "/", "/", "C", "l", "a", "u", "d", "e", "/", "/", "E", "v", "e", "n", "t", " ", "t", "o", " ", "C", "a", "l", "e", "n", "d", "a", "r", " ", "S", "k", "i", "l", "l", "/", "/", "E", "N">>
CALSCALE_LINE == <<"C", "A", "L", "S", "C", "A", "L", "E", ":", "G", "R", "E", "G", "O", "R", "I", "A", "N">>
METHOD_LINE == <<"M", "E", "T", "H", "O", "D", ":", "P", "U", "B", "L", "I", "S", "H">>
BEGIN_VEVENT == <<"B", "E", "G", "I", "N", ":", "V", "E", "V", "E", "N", "T">>
END_VEVENT == <<"E", "N", "D", ":", "V", "E", "V", "E", "N", "T">>
END_VCALENDAR == <<"E", "N", "D", ":", "V", "C", "A", "L", "E", "N", "D", "A", "R">>

\* uuid.uuid4() as text: 36 characters, here told apart by one digit.
UuidText(n) ==
    Rep("0", 7) \o <<Digits[n + 1]>> \o <<"-", "0", "0", "0", "0", "-", "4", "0", "0", "0", "-", "8", "0", "0", "0", "-">> \o Rep("0", 12)

\* Mutant: the identifier is made once and used for every call.
uid_of_first_call(uuid) == UuidText(1) \o <<"@", "c", "l", "a", "u", "d", "e", ".", "a", "i">>

\* uid = f"{uuid.uuid4()}@claude.ai"
uid_of(uuid) == uuid \o <<"@", "c", "l", "a", "u", "d", "e", ".", "a", "i">>

\* datetime.now(utc).strftime('%Y%m%dT%H%M%SZ')
dtstamp_of(clock) == strftime(clock, libc_pads_year) \o <<"Z">>

\* The list literal: the preamble and the six properties every event has.
header_lines(a, uid_, dtstamp_, dtstart, dtend) ==
    << BEGIN_VCALENDAR,
       VERSION_LINE,
       PRODID_LINE,
       CALSCALE_LINE,
       METHOD_LINE,
       BEGIN_VEVENT,
       <<"U", "I", "D", ":">> \o uid_,
       <<"D", "T", "S", "T", "A", "M", "P", ":">> \o dtstamp_,
       <<"D", "T", "S", "T", "A", "R", "T", ";", "T", "Z", "I", "D", "=">> \o fstr(a.timezone) \o <<":">> \o dtstart,
       <<"D", "T", "E", "N", "D", ";", "T", "Z", "I", "D", "=">> \o fstr(a.timezone) \o <<":">> \o dtend,
       <<"S", "U", "M", "M", "A", "R", "Y", ":">> \o escape_text(a.title),
       <<"S", "T", "A", "T", "U", "S", ":">> \o fstr(a.status) >>

\* Mutant: LOCATION is emitted for every location that is not None.
location_lines_not_none(location) ==
    IF location # None THEN <<<<"L", "O", "C", "A", "T", "I", "O", "N", ":">> \o escape_text(location)>> ELSE <<>>

location_lines(location) ==
    IF Truthy(location) THEN <<<<"L", "O", "C", "A", "T", "I", "O", "N", ":">> \o escape_text(location)>> ELSE <<>>

description_lines(description) ==
    IF Truthy(description) THEN <<<<"D", "E", "S", "C", "R", "I", "P", "T", "I", "O", "N", ":">> \o escape_text(description)>> ELSE <<>>

\* Mutant: the URL is escaped like a text value.
url_lines_escaped(url) ==
    IF Truthy(url) THEN <<<<"U", "R", "L", ":">> \o escape_text(url)>> ELSE <<>>

url_lines(url) ==
    IF Truthy(url) THEN <<<<"U", "R", "L", ":">> \o url>> ELSE <<>>

\* Mutant: without an email there is no ORGANIZER line.
organizer_lines_needs_email(organizer, organizer_email) ==
    IF Truthy(organizer) /\ Truthy(organizer_email)
    THEN <<<<"O", "R", "G", "A", "N", "I", "Z", "E", "R", ";", "C", "N", "=">> \o escape_text(organizer) \o <<":", "m", "a", "i", "l", "t", "o", ":">> \o organizer_email>>
    ELSE <<>>

organizer_lines(organizer, organizer_email) ==
    IF Truthy(organizer)
    THEN IF Truthy(organizer_email)
         THEN <<<<"O", "R", "G", "A", "N", "I", "Z", "E", "R", ";", "C", "N", "=">> \o escape_text(organizer) \o <<":", "m", "a", "i", "l", "t", "o", ":">> \o organizer_email>>
         ELSE <<<<"O", "R", "G", "A", "N", "I", "Z", "E", "R", ";", "C", "N", "=">> \o escape_text(organizer) \o <<":", "i", "n", "v", "a", "l", "i", "d", ":", "n", "o", "m", "a", "i", "l">>>>
    ELSE <<>>

categories_lines(categories) ==
    IF Truthy(categories) THEN <<<<"C", "A", "T", "E", "G", "O", "R", "I", "E", "S", ":">> \o escape_text(categories)>> ELSE <<>>

image_lines(image) ==
    IF Truthy(image) THEN <<<<"I", "M", "A", "G", "E", ";", "V", "A", "L", "U", "E", "=", "U", "R", "I", ":">> \o image>> ELSE <<>>

\* Mutant: the suffix is compared without lower().
attach_line_case_sensitive(attachment) ==
    IF endswith(attachment, <<".", "p", "d", "f">>)
    THEN <<"A", "T", "T", "A", "C", "H", ";", "F", "M", "T", "T", "Y", "P", "E", "=", "a", "p", "p", "l", "i", "c", "a", "t", "i", "o", "n", "/", "p", "d", "f", ":">> \o attachment
    ELSE IF endswith(attachment, <<".", "j", "p", "g">>) \/ endswith(attachment, <<".", "j", "p", "e", "g">>)
    THEN <<"A", "T", "T", "A", "C", "H", ";", "F", "M", "T", "T", "Y", "P", "E", "=", "i", "m", "a", "g", "e", "/", "j", "p", "e", "g", ":">> \o attachment
    ELSE IF endswith(attachment, <<".", "p", "n", "g">>)
    THEN <<"A", "T", "T", "A", "C", "H", ";", "F", "M", "T", "T", "Y", "P", "E", "=", "i", "m", "a", "g", "e", "/", "p", "n", "g", ":">> \o attachment
    ELSE IF endswith(attachment, <<".", "d", "o", "c">>) \/ endswith(attachment, <<".", "d", "o", "c", "x">>)
    THEN <<"A", "T", "T", "A", "C", "H", ";", "F", "M", "T", "T", "Y", "P", "E", "=", "a", "p", "p", "l", "i", "c", "a", "t", "i", "o", "n", "/", "m", "s", "w", "o", "r", "d", ":">> \o attachment
    ELSE <<"A", "T", "T", "A", "C", "H", ":">> \o attachment

\* The ATTACH line of one attachment: FMTTYPE from the lower-cased suffix.
attach_line(attachment) ==
    LET low == lower(attachment)
    IN  IF endswith(low, <<".", "p", "d", "f">>)
        THEN <<"A", "T", "T", "A", "C", "H", ";", "F", "M", "T", "T", "Y", "P", "E", "=", "a", "p", "p", "l", "i", "c", "a", "t", "i", "o", "n", "/", "p", "d", "f", ":">> \o attachment
        ELSE IF endswith(low, <<".", "j", "p", "g">>) \/ endswith(low, <<".", "j", "p", "e", "g">>)
        THEN <<"A", "T", "T", "A", "C", "H", ";", "F", "M", "T", "T", "Y", "P", "E", "=", "i", "m", "a", "g", "e", "/", "j", "p", "e", "g", ":">> \o attachment
        ELSE IF endswith(low, <<".", "p", "n", "g">>)
        THEN <<"A", "T", "T", "A", "C", "H", ";", "F", "M", "T", "T", "Y", "P", "E", "=", "i", "m", "a", "g", "e", "/", "p", "n", "g", ":">> \o attachment
        ELSE IF endswith(low, <<".", "d", "o", "c">>) \/ endswith(low, <<".", "d", "o", "c", "x">>)
        THEN <<"A", "T", "T", "A", "C", "H", ";", "F", "M", "T", "T", "Y", "P", "E", "=", "a", "p", "p", "l", "i", "c", "a", "t", "i", "o", "n", "/", "m", "s", "w", "o", "r", "d", ":">> \o attachment
        ELSE <<"A", "T", "T", "A", "C", "H", ":">> \o attachment

\* Mutant: the list is walked from its end.
attachment_lines_reversed(attachments) ==
    IF Truthy(attachments)
    THEN [i \in 1..Len(attachments) |-> attach_line(attachments[Len(attachments) + 1 - i])]
    ELSE <<>>

attachment_lines(attachments) ==
    IF Truthy(attachments)
    THEN [i \in 1..Len(attachments) |-> attach_line(attachments[i])]
    ELSE <<>>

conference_lines(conference_url) ==
    IF Truthy(conference_url)
    THEN <<<<"C", "O", "N", "F", "E", "R", "E", "N", "C", "E", ";", "V", "A", "L", "U", "E", "=", "U", "R", "I", ";", "F", "E", "A", "T", "U", "R", "E", "=", "V", "I", "D", "E", "O", ":">> \o conference_url>>
    ELSE <<>>

geo_lines(geo) ==
    IF Truthy(geo) THEN <<<<"G", "E", "O", ":">> \o geo>> ELSE <<>>

trailer_lines == <<END_VEVENT, END_VCALENDAR>>

\* Mutant: STATUS is put before SUMMARY.
event_lines_status_first(a, uid_, dtstamp_, dtstart, dtend) ==
    LET h == header_lines(a, uid_, dtstamp_, dtstart, dtend)
    IN  SubSeq(h, 1, 10) \o <<h[12], h[11]>> \o trailer_lines

\* The logical lines of the document, as the list is built.
event_lines(a, uid_, dtstamp_, dtstart, dtend) ==
    header_lines(a, uid_, dtstamp_, dtstart, dtend)
    \o location_lines(a.location)
    \o description_lines(a.description)
    \o url_lines(a.url)
    \o organizer_lines(a.organizer, a.organizer_email)
    \o categories_lines(a.categories)
    \o image_lines(a.image)
    \o attachment_lines(a.attachments)
    \o conference_lines(a.conference_url)
    \o geo_lines(a.geo)
    \o trailer_lines

\* Every line folded at the default limit, joined with CRLF, and a final CRLF.
ics_document(lines_) ==
    str_join(CRLF, [i \in 1..Len(lines_) |-> fold_line(lines_[i], DefaultMaxLength)]) \o CRLF

\* What print(ics_content) and the confirmation print put on standard output.
PrintedDocument(text) == [what |-> "document", text |-> text \o <<LF>>]
PrintedConfirmation(path) == [what |-> "confirmation", text |-> path]

\* Path.absolute(): the path itself if it starts at the root, else under the
\* working directory.
WorkingDirectory == <<"/", "w">>
absolute(path) == IF path # <<>> /\ path[1] = "/" THEN path ELSE WorkingDirectory \o <<"/">> \o path

\* --------------------------------------------- specification: escape_text

MaxTextLen == 3

EscapeChars == {BSL, ",", ";", LF, "a", "n"}

EscapeInputs == SeqsUpTo(EscapeChars, MaxTextLen) \cup {None}

EscapeIdle == e_pc = "idle" /\ e_text = None /\ e_out = None /\ e_out2 = None

FoldIdle ==
    /\ f_pc = "idle" /\ f_line = <<>> /\ f_max = DefaultMaxLength /\ f_out = None
    /\ f_result = <<>> /\ f_current = <<>>

\* generate_ics's parameters with their defaults (lines 94-111), for the
\* required ones sample values.
DefaultArgs ==
    [title |-> <<"E", "v">>, start |-> <<"2", "0", "2", "5", "-", "0", "3", "-", "1", "5", "T", "1", "9", ":", "0", "0", ":", "0", "0">>, end |-> <<"2", "0", "2", "5", "-", "0", "3", "-", "1", "5", "T", "2", "2", ":", "0", "0", ":", "0", "0">>,
     timezone |-> <<"U", "T", "C">>, location |-> None, description |-> None, url |-> None,
     organizer |-> None, organizer_email |-> None, categories |-> None,
     status |-> <<"C", "O", "N", "F", "I", "R", "M", "E", "D">>, image |-> None, attachments |-> None,
     conference_url |-> None, geo |-> None, output_path |-> None]

\* Readings of the system clock (UTC).
Clocks ==
    {[ok |-> TRUE, year |-> 2026, month |-> 11, day |-> 2, hour |-> 9, minute |-> 5, second |-> 7],
     [ok |-> TRUE, year |-> 2026, month |-> 12, day |-> 31, hour |-> 23, minute |-> 59, second |-> 59]}

RunLocalsUnset ==
    /\ uid = None /\ dtstamp = None
    /\ dtstart_formatted = None /\ dtend_formatted = None
    /\ lines = <<>> /\ ics_content = None /\ ret = None
    /\ stdout = <<>> /\ stderr = <<>> /\ file = None
    /\ exit_status = Running
    /\ uuid_issued = {} /\ clock_reads = 0
    /\ history = <<>>

RunIdle ==
    /\ pc = "idle" /\ argv = DefaultArgs /\ args = DefaultArgs
    /\ RunLocalsUnset
    /\ now \in {CHOOSE c \in Clocks : TRUE}
    /\ fs_writable = TRUE

DatetimeIdle ==
    /\ d_pc = "idle" /\ d_base = <<>> /\ d_suffix = <<>> /\ d_tz = None
    /\ d_out = None /\ d_exit = Running /\ d_err = <<>>

InitEscape ==
    /\ e_pc = "call"
    /\ e_text \in EscapeInputs
    /\ e_out = None
    /\ e_out2 = None
    /\ FoldIdle
    /\ DatetimeIdle
    /\ libc_pads_year = FALSE
    /\ RunIdle

\* escape_text(text)
escape_call ==
    /\ e_pc = "call"
    /\ e_out' = escape_text(e_text)
    /\ e_pc' = "once"
    /\ UNCHANGED <<e_text, e_out2, fold_vars, datetime_vars, libc_pads_year, run_vars>>

\* escape_text(escape_text(text))
escape_again ==
    /\ e_pc = "once"
    /\ e_out2' = escape_text(e_out)
    /\ e_pc' = "twice"
    /\ UNCHANGED <<e_text, e_out, fold_vars, datetime_vars, libc_pads_year, run_vars>>

NextEscape == escape_call \/ escape_again

SpecEscape == InitEscape /\ [][NextEscape]_vars

\* The image of one character under RFC 5545 text escaping.
EscapedChar(c) ==
    CASE c = BSL -> <<BSL, BSL>>
      [] c = "," -> <<BSL, ",">>
      [] c = ";" -> <<BSL, ";">>
      [] c = LF  -> <<BSL, "n">>
      [] OTHER   -> <<c>>

\* The character-by-character image of a text.
CharImage(text) == Flatten([i \in 1..Len(text) |-> EscapedChar(text[i])])

IsSpecial(c) == c \in {BSL, ",", ";", LF}

HasSpecial(text) == text # None /\ \E i \in 1..Len(text) : IsSpecial(text[i])

\* C1: escape_text returns the character-by-character image of its input
\* (backslash doubled; comma, semicolon and LF prefixed/replaced by a single
\* backslash escape that is not doubled again; every other character copied),
\* and the empty string for None or the empty text.
C1_EscapeIsCharImage ==
    e_pc # "call" =>
        e_out = (IF e_text = None \/ e_text = <<>> THEN <<>> ELSE CharImage(e_text))

\* C1 witness: a text holding a backslash and a comma has been escaped.
C1_Witness ==
    /\ e_pc = "once"
    /\ e_text = <<BSL, ",", LF>>
    /\ e_out = <<BSL, BSL, BSL, ",", BSL, "n">>

\* C2: escape_text applied twice differs from escape_text applied once exactly
\* for the texts that hold a backslash, comma, semicolon or newline.
C2_NotIdempotent ==
    e_pc = "twice" => ((e_out2 # e_out) <=> HasSpecial(e_text))

\* C2 witness: a text with a comma escaped twice, giving three backslashes.
C2_Witness ==
    /\ e_pc = "twice"
    /\ e_text = <<"a", ",">>
    /\ e_out = <<"a", BSL, ",">>
    /\ e_out2 = <<"a", BSL, BSL, BSL, ",">>

\* ----------------------------------------------- specification: fold_line

MaxPadLen == 77
MaxTailLen == 2
MaxSmallLimit == 4

FoldChars == {"A", " ", LF, CR}

\* Lines: a run of one character followed by a short arbitrary tail, so that
\* lengths around the default limit occur with different characters at the cut.
FoldInputs ==
    {Rep(c, n) \o t : c \in {"B"}, n \in 0..MaxPadLen, t \in SeqsUpTo(FoldChars, MaxTailLen)}

\* Limits for which the loop ends: the default and a few small ones.
FoldLimits == {DefaultMaxLength} \cup 2..MaxSmallLimit

InitFold ==
    /\ f_pc = "call"
    /\ f_line \in FoldInputs
    /\ f_max \in FoldLimits
    /\ f_out = None
    /\ f_result = <<>>
    /\ f_current = <<>>
    /\ EscapeIdle
    /\ DatetimeIdle
    /\ libc_pads_year = FALSE
    /\ RunIdle

\* fold_line(line, max_length)
fold_call ==
    /\ f_pc = "call"
    /\ f_out' = fold_line(f_line, f_max)
    /\ f_pc' = "done"
    /\ UNCHANGED <<f_line, f_max, f_result, f_current, escape_vars, datetime_vars,
                   libc_pads_year, run_vars>>

NextFold == fold_call

SpecFold == InitFold /\ [][NextFold]_vars

\* C3: a line no longer than the limit is returned unchanged.
C3_ShortLineUnchanged ==
    (f_pc = "done" /\ Len(f_line) <= f_max) => f_out = f_line

\* C3 witness: a line of exactly 75 characters went through fold_line with the
\* default limit.
C3_Witness ==
    /\ f_pc = "done"
    /\ f_max = DefaultMaxLength
    /\ Len(f_line) = DefaultMaxLength
    /\ f_out = f_line

\* C4: a line of 76 characters folded at the default limit is its first 75
\* characters, CR LF, one space, and its 76th character.
C4_Fold76 ==
    (f_pc = "done" /\ f_max = DefaultMaxLength /\ Len(f_line) = 76) =>
        f_out = SubSeq(f_line, 1, 75) \o <<CR, LF, " ">> \o <<f_line[76]>>

\* C4 witness: a 76-character line whose last character differs from the
\* rest has been folded.
C4_Witness ==
    /\ f_pc = "done"
    /\ f_max = DefaultMaxLength
    /\ Len(f_line) = 76
    /\ f_line[76] = "A"
    /\ f_line[75] = "B"
    /\ Len(f_out) = 79

\* The least element of a set of numbers that is not empty.
Least(S) == CHOOSE i \in S : \A j \in S : i <= j

\* str.split('\r\n'): the pieces of a text between its CR LF pairs, found
\* from left to right; st is where the piece being read begins, pairs the
\* places where a CR LF pair begins.
RECURSIVE split_from(_, _, _)
split_from(text, st, pairs) ==
    LET ahead == {i \in pairs : i >= st}
    IN  IF ahead = {} THEN <<SubSeq(text, st, Len(text))>>
        ELSE <<SubSeq(text, st, Least(ahead) - 1)>> \o split_from(text, Least(ahead) + 2, ahead)

split_crlf(text) ==
    split_from(text, 1, {i \in 1..(Len(text) - 1) : text[i] = CR /\ text[i + 1] = LF})

\* The text has a CR LF pair in it.
HasCrlf(text) == \E i \in 1..(Len(text) - 1) : text[i] = CR /\ text[i + 1] = LF

\* The segments of the folded text are as the rule says: the first is the
\* first `limit` characters of the line; each later one is a space and the
\* next limit-1 characters (fewer only in the last); all but the last have
\* `limit` characters, the last at most `limit`; together they hold the line.
FoldedInSegments(line, limit, out) ==
    LET segs == split_crlf(out)
        n == Len(segs)
    IN  /\ n >= 2
        /\ segs[1] = SubSeq(line, 1, limit)
        /\ \A k \in 2..n :
              /\ Len(segs[k]) >= 2
              /\ segs[k][1] = " "
              /\ Tail(segs[k]) =
                    SubSeq(line, limit + (k - 2) * (limit - 1) + 1,
                           IF limit + (k - 1) * (limit - 1) < Len(line)
                           THEN limit + (k - 1) * (limit - 1) ELSE Len(line))
              /\ k < n => Len(segs[k]) = limit
        /\ Len(segs[n]) <= limit
        /\ \A k \in 1..n : Len(segs[k]) <= limit
        /\ segs[1] \o Flatten([k \in 1..(n - 1) |-> Tail(segs[k + 1])]) = line

\* C20: for a line longer than the limit and a limit of at least 2, the
\* result of fold_line split on CR LF is in segments as the rule says, so no
\* physical line is longer than the limit.
C20_FoldSegments ==
    (f_pc = "done" /\ f_max >= 2 /\ Len(f_line) > f_max) =>
        FoldedInSegments(f_line, f_max, f_out)

\* C20 as amended: the same for every such line that has no CR LF pair in it.
C20_FoldSegmentsWithoutCrlf ==
    (f_pc = "done" /\ f_max >= 2 /\ Len(f_line) > f_max /\ ~HasCrlf(f_line)) =>
        FoldedInSegments(f_line, f_max, f_out)

\* C20 witness: a line of 79 characters ending in a lone CR and a space was
\* folded at limit 4 into 26 segments.
C20_Witness ==
    /\ f_pc = "done"
    /\ f_max = 4
    /\ Len(f_line) = 79
    /\ SubSeq(f_line, 78, 79) = <<CR, " ">>
    /\ Len(split_crlf(f_out)) = 26
    /\ split_crlf(f_out)[26] = <<" ", "B", CR, " ">>

\* ------------------------------- specification: fold_line, pass by pass

MaxLoopLen == 4
MaxLimit == 3
MaxPasses == 6

LoopLines == SeqsUpTo({"A", " "}, MaxLoopLen)

\* max_length: 0, 1 and the smallest limits above them.
LoopLimits == 0..MaxLimit

InitLoop ==
    /\ f_pc = "enter"
    /\ f_line \in LoopLines
    /\ f_max \in LoopLimits
    /\ f_out = None
    /\ f_result = <<>>
    /\ f_current = <<>>
    /\ EscapeIdle
    /\ DatetimeIdle
    /\ libc_pads_year = FALSE
    /\ RunIdle

\* if len(line) <= max_length: return line
fold_return_line ==
    /\ f_pc = "enter"
    /\ Len(f_line) <= f_max
    /\ f_out' = f_line
    /\ f_pc' = "done"
    /\ UNCHANGED <<f_line, f_max, f_result, f_current, escape_vars, datetime_vars,
                   libc_pads_year, run_vars>>

\* result = []; current = line
fold_enter_loop ==
    /\ f_pc = "enter"
    /\ Len(f_line) > f_max
    /\ f_result' = <<>>
    /\ f_current' = f_line
    /\ f_pc' = "while"
    /\ UNCHANGED <<f_line, f_max, f_out, escape_vars, datetime_vars, libc_pads_year, run_vars>>

\* One pass of the while loop. The model follows the loop for MaxPasses
\* passes.
fold_pass ==
    /\ f_pc = "while"
    /\ Len(f_current) > f_max
    /\ Len(f_result) < MaxPasses
    /\ \E st \in {fold_body([result |-> f_result, current |-> f_current], f_max)} :
          /\ f_result' = st.result
          /\ f_current' = st.current
    /\ UNCHANGED <<f_pc, f_line, f_max, f_out, escape_vars, datetime_vars, libc_pads_year,
                   run_vars>>

\* The loop condition is false: result.append(current); return the join.
fold_return_join ==
    /\ f_pc = "while"
    /\ Len(f_current) <= f_max
    /\ f_result' = Append(f_result, f_current)
    /\ f_out' = str_join(CRLF, Append(f_result, f_current))
    /\ f_pc' = "done"
    /\ UNCHANGED <<f_line, f_max, f_current, escape_vars, datetime_vars, libc_pads_year,
                   run_vars>>

NextLoop == fold_return_line \/ fold_enter_loop \/ fold_pass \/ fold_return_join

SpecLoop == InitLoop /\ [][NextLoop]_vars

\* The interpreter keeps running the call: a step that can be taken is taken.
FairSpecLoop == SpecLoop /\ WF_vars(NextLoop)

\* C21: for every line and every max_length from 0 up, fold_line comes to
\* its return.
C21_FoldLineReturns == <>(f_pc = "done")

\* The part of C21 the code keeps: fold_line returns for every line no longer
\* than max_length and for every max_length of at least 2, and what the
\* passes return is what fold_line is defined to return.
FoldLineReturnsFromLimit2 ==
    (Len(f_line) <= f_max \/ f_max >= 2) ~> (f_pc = "done" /\ f_out = fold_line(f_line, f_max))

\* Why it does not return otherwise: with max_length 0 or 1 a pass never
\* shortens current, so the loop condition stays true.
PassKeepsLengthBelowLimit2 ==
    [][(f_pc = "while" /\ f_max <= 1 /\ f_current' # f_current) =>
          (Len(f_current') >= Len(f_current) /\ Len(f_current') > f_max)]_vars

\* A run that stopped at MaxPasses passes is inside the loop with the loop
\* condition true, and that only for max_length 0 or 1.
StoppedOnlyInsideLoop ==
    (f_pc = "while" /\ Len(f_result) = MaxPasses) => (Len(f_current) > f_max /\ f_max <= 1)

\* ----------------------------------------- specification: format_datetime

\* Dates: plain, leap day, a day that does not exist, a year below 1000, a
\* month that does not exist, the last day of a year.
DateStrings ==
    {<<"2", "0", "2", "5", "-", "0", "3", "-", "1", "5">>,
     <<"2", "0", "2", "4", "-", "0", "2", "-", "2", "9">>,
     <<"2", "0", "2", "5", "-", "0", "2", "-", "2", "9">>,
     <<"0", "9", "9", "9", "-", "0", "3", "-", "1", "5">>,
     <<"2", "0", "2", "5", "-", "1", "3", "-", "0", "1">>,
     <<"2", "0", "2", "5", "-", "1", "2", "-", "3", "1">>}

\* Separator and clock time: none (date only), full, with a space, without
\* seconds, end of day, hour 24, with milliseconds, midnight.
TimeStrings ==
    {<<>>,
     <<"T", "1", "9", ":", "0", "0", ":", "0", "0">>,
     <<" ", "1", "9", ":", "0", "0", ":", "0", "0">>,
     <<"T", "1", "9", ":", "0", "0">>,
     <<"T", "2", "3", ":", "5", "9", ":", "5", "9">>,
     <<"T", "2", "4", ":", "0", "0", ":", "0", "0">>,
     <<"T", "1", "9", ":", "0", "0", ":", "0", "0", ".", "1", "2", "3">>,
     <<"T", "0", "0", ":", "0", "0", ":", "0", "0">>}

\* 'Z' and numeric +HH:MM / -HH:MM offsets.
OffsetSuffixes ==
    {<<"Z">>,
     <<"+", "0", "5", ":", "3", "0">>,
     <<"-", "0", "8", ":", "0", "0">>,
     <<"+", "0", "0", ":", "0", "0">>}

\* Other endings: none, an offset of 24 hours, a lower-case z, a malformed one.
OtherSuffixes ==
    {<<>>,
     <<"+", "2", "4", ":", "0", "0">>,
     <<"z">>,
     <<"+", "0", "5", "3", "0", "x">>}

\* Strings that are no ISO date at all.
MalformedStrings ==
    {<<"n", "o", "t", "-", "a", "-", "d", "a", "t", "e">>,
     <<"2", "0", "2", "5", "/", "0", "3", "/", "1", "5", " ", "1", "9", ":", "0", "0">>,
     <<>>,
     <<"2", "0", "2", "5", "-", "0", "3", "-", "1", "5", "T">>}

TimezoneArgs == {None, <<"U", "T", "C">>, <<"A", "s", "i", "a", "/", "T", "o", "k", "y", "o">>}

InitDatetime ==
    /\ d_pc = "call"
    /\ \/ \E d \in DateStrings, t \in TimeStrings :
            d_base = d \o t /\ d_suffix \in OffsetSuffixes \cup OtherSuffixes
       \/ d_base \in MalformedStrings /\ d_suffix \in {<<>>, <<"Z">>}
    /\ d_tz \in TimezoneArgs
    /\ d_out = None
    /\ d_exit = Running
    /\ d_err = <<>>
    /\ libc_pads_year \in BOOLEAN
    /\ EscapeIdle
    /\ FoldIdle
    /\ RunIdle

\* format_datetime(dt_str, timezone) returns the formatted string.
format_datetime_return ==
    /\ d_pc = "call"
    /\ format_datetime(d_base \o d_suffix, d_tz).ok
    /\ d_out' = format_datetime(d_base \o d_suffix, d_tz).val
    /\ d_pc' = "returned"
    /\ UNCHANGED <<d_base, d_suffix, d_tz, d_exit, d_err, escape_vars, fold_vars, libc_pads_year, run_vars>>

\* format_datetime(dt_str, timezone) catches ValueError: diagnostic, sys.exit(1).
format_datetime_exit ==
    /\ d_pc = "call"
    /\ ~format_datetime(d_base \o d_suffix, d_tz).ok
    /\ d_err' = Append(d_err, DatetimeDiagnostic(d_base \o d_suffix))
    /\ d_exit' = 1
    /\ d_pc' = "exited"
    /\ UNCHANGED <<d_base, d_suffix, d_tz, d_out, escape_vars, fold_vars, libc_pads_year, run_vars>>

NextDatetime == format_datetime_return \/ format_datetime_exit

SpecDatetime == InitDatetime /\ [][NextDatetime]_vars

\* C5: for a string with a 'Z' or +HH:MM / -HH:MM suffix that format_datetime
\* accepts, the result is the result for the string without the suffix, and
\* it is the same for every timezone argument.
C5_OffsetDiscarded ==
    (d_pc = "returned" /\ d_suffix \in OffsetSuffixes) =>
        /\ format_datetime(d_base, d_tz) = [ok |-> TRUE, val |-> d_out]
        /\ \A tz \in TimezoneArgs : format_datetime(d_base \o d_suffix, tz).val = d_out

\* The part of C5 the code keeps: with a clock time before the suffix, the
\* suffix changes nothing, and the timezone argument never does.
OffsetDiscardedAfterClockTime ==
    d_pc = "returned" =>
        /\ (d_suffix \in OffsetSuffixes /\ Len(d_base) > 10) =>
               format_datetime(d_base, d_tz) = [ok |-> TRUE, val |-> d_out]
        /\ \A tz \in TimezoneArgs : format_datetime(d_base \o d_suffix, tz).val = d_out

IsTimestamp(s) ==
    /\ Len(s) = 15
    /\ s[9] = "T"
    /\ \A i \in (1..15) \ {9} : IsDigit(s[i])

\* C6: whenever format_datetime returns, the result is 15 characters
\* YYYYMMDDTHHMMSS: digits with the letter T in ninth place, nothing after
\* the seconds; 2025-03-15T19:00:00 gives 20250315T190000.
C6_FifteenCharacters ==
    d_pc = "returned" =>
        /\ IsTimestamp(d_out)
        /\ (d_base \o d_suffix = <<"2", "0", "2", "5", "-", "0", "3", "-", "1", "5", "T", "1", "9", ":", "0", "0", ":", "0", "0">>) =>
               d_out = <<"2", "0", "2", "5", "0", "3", "1", "5", "T", "1", "9", "0", "0", "0", "0">>

\* The part of C6 the code keeps: for years from 1000 on, or where the C
\* library pads '%Y', the result has the 15-character form.
FifteenCharactersFromYear1000 ==
    (d_pc = "returned" /\ (libc_pads_year \/ fromisoformat(d_base).year >= 1000)) =>
        IsTimestamp(d_out)

\* ---------------------------------------- specification: generate_ics(...)

MaxEmptyFields == 1
MaxUuids == 2

Uuids == {UuidText(n) : n \in 1..MaxUuids}

OptionalFields ==
    {"location", "description", "url", "organizer", "organizer_email",
     "categories", "image", "conference_url", "geo"}

\* A value for each optional field, with characters that escaping changes.
SampleValue(f) ==
    CASE f = "location"        -> <<"L", ",", "x">>
      [] f = "description"     -> <<"D">> \o <<LF>> \o <<"x">>
      [] f = "url"             -> <<"u", ";", "1">>
      [] f = "organizer"       -> <<"O", ";">>
      [] f = "organizer_email" -> <<"e", "@", "x">>
      [] f = "categories"      -> <<"c", ",", "d">>
      [] f = "image"           -> <<"i", ",">>
      [] f = "conference_url"  -> <<"z", ";">>
      [] f = "geo"             -> <<"1", ",", "-", "2">>

\* Each optional field absent (None), empty ('') or given; at most
\* MaxEmptyFields of them empty at once.
OptionalChoices ==
    {c \in [OptionalFields -> {"absent", "empty", "given"}] :
        Cardinality({f \in OptionalFields : c[f] = "empty"}) <= MaxEmptyFields}

ChoiceValue(c, f) ==
    IF c[f] = "absent" THEN None ELSE IF c[f] = "empty" THEN <<>> ELSE SampleValue(f)

AttachmentLists == {None, <<>>, <<<<"a", ".", "P", "D", "F">>, <<"b">>>>}

\* Title and status: an ordinary pair, and both empty.
TitleStatusPairs ==
    {<< <<"E", "v", ",", "1">>, <<"C", "O", "N", "F", "I", "R", "M", "E", "D">> >>,
     << <<>>, <<>> >>}

ArgsOf(c, title, status, attachments) ==
    [DefaultArgs EXCEPT
        !.title = title, !.status = status, !.attachments = attachments,
        !.location = ChoiceValue(c, "location"),
        !.description = ChoiceValue(c, "description"),
        !.url = ChoiceValue(c, "url"),
        !.organizer = ChoiceValue(c, "organizer"),
        !.organizer_email = ChoiceValue(c, "organizer_email"),
        !.categories = ChoiceValue(c, "categories"),
        !.image = ChoiceValue(c, "image"),
        !.conference_url = ChoiceValue(c, "conference_url"),
        !.geo = ChoiceValue(c, "geo")]

BadDatetime == <<"n", "o", "t", "-", "a", "-", "d", "a", "t", "e">>

\* The call with location, description, url and categories all ''.
EmptyStringsArgs ==
    [DefaultArgs EXCEPT !.location = <<>>, !.description = <<>>, !.url = <<>>,
                        !.categories = <<>>]

\* Attachment lists: a duplicate, every known suffix in mixed case, and URIs
\* that only look like a known suffix.
MoreAttachmentLists ==
    {<<<<"b", ".", "p", "d", "f">>, <<"b", ".", "p", "d", "f">>, <<"a", ".", "P", "N", "G">>>>,
     <<<<"x", ".", "J", "P", "G">>, <<"y", ".", "J", "p", "e", "g">>, <<"z", ".", "d", "o", "c">>, <<"w", ".", "D", "O", "C", "X">>, <<"v", ".", "p", "d", "f", "x">>>>,
     <<<<"p", "d", "f">>, <<".", "p", "n", "g">>, <<"q", ".", "j", "p", "g", "?", "x">>, <<"a", ".", "p", "d", "f", ".", "t", "x", "t">>>>}

AttachmentArgs ==
    {[DefaultArgs EXCEPT !.attachments = at, !.image = im, !.conference_url = cf] :
        at \in MoreAttachmentLists,
        im \in {None, SampleValue("image")},
        cf \in {None, SampleValue("conference_url")}}

\* Values with line breaks in them: a bare LF, and CR LF followed by the text
\* of a delimiter line.
BrokenValues ==
    {<<"u", LF, "v">>,
     <<"1", CR, LF>> \o END_VEVENT \o CRLF \o BEGIN_VEVENT,
     <<"X", CR, LF>> \o END_VCALENDAR,
     <<"X", CR, LF>> \o BEGIN_VCALENDAR \o <<CR>>}

\* A title long enough to be folded, with characters that are escaped.
LongTitle == Rep("t", 73) \o <<",", LF, "x">>

\* Calls with such a value in one field, the others as in DefaultArgs.
BrokenFields ==
    {"title", "timezone", "status", "location", "description", "url", "organizer",
     "organizer_email", "categories", "image", "conference_url", "geo"}

BrokenArgs ==
    {[DefaultArgs EXCEPT ![f] = v, !.organizer = IF f = "organizer" THEN v ELSE <<"O">>] :
        f \in BrokenFields, v \in BrokenValues}
    \cup {[DefaultArgs EXCEPT !.attachments = <<v>>] : v \in BrokenValues}
    \cup {[DefaultArgs EXCEPT !.title = LongTitle]}

\* Calls of generate_ics: every choice of the optional fields with good
\* datetimes, the default event with a bad start or end, and the calls above.
CallArgs ==
    {ArgsOf(c, ts[1], ts[2], at) :
        c \in OptionalChoices, ts \in TitleStatusPairs, at \in AttachmentLists}
    \cup {[DefaultArgs EXCEPT !.start = BadDatetime], [DefaultArgs EXCEPT !.end = BadDatetime]}
    \cup {EmptyStringsArgs}
    \cup AttachmentArgs
    \cup BrokenArgs

\* The call is made in a process whose earlier calls have used up all but one
\* of the UUIDs of the model.
InitCall ==
    /\ pc = "call"
    /\ args \in CallArgs
    /\ argv = DefaultArgs
    /\ uid = None /\ dtstamp = None
    /\ dtstart_formatted = None /\ dtend_formatted = None
    /\ lines = <<>> /\ ics_content = None /\ ret = None
    /\ stdout = <<>> /\ stderr = <<>> /\ file = None
    /\ exit_status = Running
    /\ uuid_issued = Uuids \ {UuidText(1)}
    /\ clock_reads = 0
    /\ history = <<>>
    /\ now \in {CHOOSE c \in Clocks : TRUE}
    /\ fs_writable = TRUE
    /\ libc_pads_year = FALSE
    /\ EscapeIdle
    /\ FoldIdle
    /\ DatetimeIdle

\* generate_ics(...) from its first line to its return: UID, timestamp, both
\* datetimes, the lines, folding and joining, and the sink.
generate_ics_return ==
    /\ pc = "call"
    /\ clock_reads' = clock_reads + 1
    /\ \E u \in Uuids \ uuid_issued,
          s \in {format_datetime(args.start, args.timezone)},
          e \in {format_datetime(args.end, args.timezone)} :
          /\ s.ok /\ e.ok
          /\ uuid_issued' = uuid_issued \cup {u}
          /\ uid' = uid_of(u)
          /\ dtstamp' = dtstamp_of(now)
          /\ dtstart_formatted' = s.val
          /\ dtend_formatted' = e.val
          /\ \E ls \in {event_lines(args, uid_of(u), dtstamp_of(now), s.val, e.val)} :
                /\ lines' = ls
                /\ \E doc \in {ics_document(ls)} :
                      /\ ics_content' = doc
                      /\ ret' = doc
                      /\ history' = Append(history, [args |-> args, uid |-> uid_of(u),
                                                      dtstamp |-> dtstamp_of(now),
                                                      lines |-> ls, ret |-> doc])
                      /\ IF Truthy(args.output_path)
                         THEN /\ file' = doc
                              /\ stdout' = Append(stdout,
                                               PrintedConfirmation(absolute(args.output_path)))
                         ELSE /\ file' = file
                              /\ stdout' = Append(stdout, PrintedDocument(doc))
    /\ pc' = "returned"
    /\ UNCHANGED <<argv, args, stderr, exit_status, now, fs_writable>>
    /\ UNCHANGED <<escape_vars, fold_vars, datetime_vars, libc_pads_year>>

\* generate_ics(...) with a start or end that format_datetime rejects: the
\* UID and the timestamp are taken, then format_datetime prints and exits.
generate_ics_exit ==
    /\ pc = "call"
    /\ \E u \in Uuids \ uuid_issued :
          /\ uuid_issued' = uuid_issued \cup {u}
          /\ uid' = uid_of(u)
    /\ clock_reads' = clock_reads + 1
    /\ dtstamp' = dtstamp_of(now)
    /\ \E s \in {format_datetime(args.start, args.timezone)},
          e \in {format_datetime(args.end, args.timezone)} :
          /\ ~(s.ok /\ e.ok)
          /\ IF s.ok
             THEN /\ dtstart_formatted' = s.val
                  /\ stderr' = Append(stderr, DatetimeDiagnostic(args.end))
             ELSE /\ dtstart_formatted' = dtstart_formatted
                  /\ stderr' = Append(stderr, DatetimeDiagnostic(args.start))
    /\ exit_status' = 1
    /\ pc' = "exited"
    /\ UNCHANGED <<argv, args, dtend_formatted, lines, ics_content, ret, stdout, file,
                   now, fs_writable, history>>
    /\ UNCHANGED <<escape_vars, fold_vars, datetime_vars, libc_pads_year>>

NextCall == generate_ics_return \/ generate_ics_exit

SpecCall == InitCall /\ [][NextCall]_vars

\* The position of the first ':' or ';' of a line at or after i (one past
\* the end if there is none).
RECURSIVE NameEnd(_, _)
NameEnd(line, i) ==
    IF i > Len(line) \/ line[i] \in {":", ";"} THEN i ELSE NameEnd(line, i + 1)

\* The name of a content line: what precedes its first ':' or ';'.
LineName(line) == SubSeq(line, 1, NameEnd(line, 1) - 1)

\* The properties of a VEVENT in the order the document lists them.
PropertyOrder ==
    <<<<"U", "I", "D">>,
      <<"D", "T", "S", "T", "A", "M", "P">>,
      <<"D", "T", "S", "T", "A", "R", "T">>,
      <<"D", "T", "E", "N", "D">>,
      <<"S", "U", "M", "M", "A", "R", "Y">>,
      <<"S", "T", "A", "T", "U", "S">>,
      <<"L", "O", "C", "A", "T", "I", "O", "N">>,
      <<"D", "E", "S", "C", "R", "I", "P", "T", "I", "O", "N">>,
      <<"U", "R", "L">>,
      <<"O", "R", "G", "A", "N", "I", "Z", "E", "R">>,
      <<"C", "A", "T", "E", "G", "O", "R", "I", "E", "S">>,
      <<"I", "M", "A", "G", "E">>,
      <<"A", "T", "T", "A", "C", "H">>,
      <<"C", "O", "N", "F", "E", "R", "E", "N", "C", "E">>,
      <<"G", "E", "O">>>>

Rank(name) ==
    IF \E k \in 1..Len(PropertyOrder) : PropertyOrder[k] = name
    THEN CHOOSE k \in 1..Len(PropertyOrder) : PropertyOrder[k] = name
    ELSE 0

\* The lines between BEGIN:VEVENT and END:VEVENT.
EventBody == SubSeq(lines, 7, Len(lines) - 2)

\* The ranks of the names of a sequence of lines.
RECURSIVE RanksOf(_)
RanksOf(ls) == IF ls = <<>> THEN <<>> ELSE <<Rank(LineName(Head(ls)))>> \o RanksOf(Tail(ls))

HasProperty(name) == \E i \in 1..Len(EventBody) : LineName(EventBody[i]) = name
PropertyLine(name) == EventBody[CHOOSE i \in 1..Len(EventBody) : LineName(EventBody[i]) = name]

Framed ==
    /\ Len(lines) >= 14
    /\ SubSeq(lines, 1, 6) = <<BEGIN_VCALENDAR, VERSION_LINE, PRODID_LINE, CALSCALE_LINE,
                               METHOD_LINE, BEGIN_VEVENT>>
    /\ SubSeq(lines, Len(lines) - 1, Len(lines)) = <<END_VEVENT, END_VCALENDAR>>

NoOptionalGiven(a) ==
    /\ \A f \in OptionalFields : a[f] = None
    /\ a.attachments \in {None, <<>>}

\* C8: with no optional field and an empty or absent attachment list, the
\* logical lines are the six preamble lines, then UID, DTSTAMP, DTSTART,
\* DTEND, SUMMARY, STATUS, then END:VEVENT and END:VCALENDAR, and no other.
C8_MinimalEventLines ==
    (pc = "returned" /\ NoOptionalGiven(args)) =>
        /\ Len(lines) = 14
        /\ Framed
        /\ [i \in 1..6 |-> LineName(lines[6 + i])] = SubSeq(PropertyOrder, 1, 6)

\* C8 witness: a call with an empty attachment list and no optional field
\* has returned.
C8_Witness ==
    /\ pc = "returned"
    /\ NoOptionalGiven(args)
    /\ args.attachments = <<>>
    /\ Len(lines) = 14

\* The property each optional field has a line of its own for.
PropertyOf(f) ==
    CASE f = "location"       -> <<"L", "O", "C", "A", "T", "I", "O", "N">>
      [] f = "description"    -> <<"D", "E", "S", "C", "R", "I", "P", "T", "I", "O", "N">>
      [] f = "url"            -> <<"U", "R", "L">>
      [] f = "organizer"      -> <<"O", "R", "G", "A", "N", "I", "Z", "E", "R">>
      [] f = "categories"     -> <<"C", "A", "T", "E", "G", "O", "R", "I", "E", "S">>
      [] f = "image"          -> <<"I", "M", "A", "G", "E">>
      [] f = "conference_url" -> <<"C", "O", "N", "F", "E", "R", "E", "N", "C", "E">>
      [] f = "geo"            -> <<"G", "E", "O">>

FieldsWithLine == OptionalFields \ {"organizer_email"}

\* The value of an optional property's line: escaped for the text fields,
\* verbatim for the others.
ExpectedLine(f, a) ==
    CASE f = "location"       -> <<"L", "O", "C", "A", "T", "I", "O", "N", ":">> \o CharImage(a.location)
      [] f = "description"    -> <<"D", "E", "S", "C", "R", "I", "P", "T", "I", "O", "N", ":">> \o CharImage(a.description)
      [] f = "url"            -> <<"U", "R", "L", ":">> \o a.url
      [] f = "organizer"      -> <<"O", "R", "G", "A", "N", "I", "Z", "E", "R", ";", "C", "N", "=">> \o CharImage(a.organizer) \o <<":">>
      [] f = "categories"     -> <<"C", "A", "T", "E", "G", "O", "R", "I", "E", "S", ":">> \o CharImage(a.categories)
      [] f = "image"          -> <<"I", "M", "A", "G", "E", ";", "V", "A", "L", "U", "E", "=", "U", "R", "I", ":">> \o a.image
      [] f = "conference_url" -> <<"C", "O", "N", "F", "E", "R", "E", "N", "C", "E", ";", "V", "A", "L", "U", "E", "=", "U", "R", "I", ";", "F", "E", "A", "T", "U", "R", "E", "=", "V", "I", "D", "E", "O", ":">> \o a.conference_url
      [] f = "geo"            -> <<"G", "E", "O", ":">> \o a.geo

\* For ORGANIZER the line goes on after the name (mailto: or invalid:nomail).
MatchesExpected(f, a) ==
    LET want == ExpectedLine(f, a)
        got == PropertyLine(PropertyOf(f))
    IN  IF f = "organizer" THEN SubSeq(got, 1, Len(want)) = want ELSE got = want

EmptyAsAbsent(a) ==
    [f \in DOMAIN a |-> IF f \in OptionalFields /\ a[f] = <<>> THEN None ELSE a[f]]

Occurs(s, sub) ==
    \E i \in 1..(Len(s) - Len(sub) + 1) : SubSeq(s, i, i + Len(sub) - 1) = sub

\* C11: with location and description passed as empty strings, the document
\* has a LOCATION: line and a DESCRIPTION: line.
C11_EmptyStringsIncluded ==
    (pc = "returned" /\ args.location = <<>> /\ args.description = <<>>) =>
        /\ Occurs(ret, <<"L", "O", "C", "A", "T", "I", "O", "N", ":">>)
        /\ Occurs(ret, <<"D", "E", "S", "C", "R", "I", "P", "T", "I", "O", "N", ":">>)

\* The ORGANIZER line for a name and an email.
OrganizerLine(name, email) ==
    <<"O", "R", "G", "A", "N", "I", "Z", "E", "R", ";", "C", "N", "=">> \o CharImage(name)
    \o (IF email # None /\ email # <<>>
        THEN <<":", "m", "a", "i", "l", "t", "o", ":">> \o email
        ELSE <<":", "i", "n", "v", "a", "l", "i", "d", ":", "n", "o", "m", "a", "i", "l">>)

C13_NoOrganizerWithoutEmail ==
    (pc = "returned" /\ Truthy(args.organizer) /\ args.organizer_email = None) =>
        ~Occurs(ret, <<"O", "R", "G", "A", "N", "I", "Z", "E", "R">>)

\* The parameter parts an ATTACH line can begin with.
AttachPrefixes ==
    {<<"A", "T", "T", "A", "C", "H", ":">>,
     <<"A", "T", "T", "A", "C", "H", ";", "F", "M", "T", "T", "Y", "P", "E", "=", "a", "p", "p", "l", "i", "c", "a", "t", "i", "o", "n", "/", "p", "d", "f", ":">>,
     <<"A", "T", "T", "A", "C", "H", ";", "F", "M", "T", "T", "Y", "P", "E", "=", "i", "m", "a", "g", "e", "/", "j", "p", "e", "g", ":">>,
     <<"A", "T", "T", "A", "C", "H", ";", "F", "M", "T", "T", "Y", "P", "E", "=", "i", "m", "a", "g", "e", "/", "p", "n", "g", ":">>,
     <<"A", "T", "T", "A", "C", "H", ";", "F", "M", "T", "T", "Y", "P", "E", "=", "a", "p", "p", "l", "i", "c", "a", "t", "i", "o", "n", "/", "m", "s", "w", "o", "r", "d", ":">>}

\* The attachment list as a sequence (None is no attachment).
Attachments == IF args.attachments = None THEN <<>> ELSE args.attachments

\* The places of the ATTACH lines among the lines of the VEVENT.
AttachPlaces == {i \in 1..Len(EventBody) : LineName(EventBody[i]) = <<"A", "T", "T", "A", "C", "H">>}

\* C14: there is one ATTACH line for each element of the attachment list, in
\* the order of the list, duplicates included, each ending in its URI as
\* given; they stand together after IMAGE and before CONFERENCE; an empty or
\* absent list gives no ATTACH line.
C14_OneAttachPerElement ==
    pc = "returned" =>
        LET r == RanksOf(EventBody)
            n == Len(Attachments)
        IN  /\ Cardinality(AttachPlaces) = n
            /\ \A i \in AttachPlaces, j \in 1..Len(r) :
                  /\ (j < i /\ j \notin AttachPlaces) => r[j] <= Rank(<<"I", "M", "A", "G", "E">>)
                  /\ (j > i /\ j \notin AttachPlaces) => r[j] >= Rank(<<"C", "O", "N", "F", "E", "R", "E", "N", "C", "E">>)
            /\ n > 0 =>
                  LET first == CHOOSE i \in AttachPlaces : \A j \in AttachPlaces : i <= j
                  IN  /\ AttachPlaces = first..(first + n - 1)
                      /\ \A k \in 1..n :
                            \E pre \in AttachPrefixes :
                                EventBody[first + k - 1] = pre \o Attachments[k]

\* C14 witness: a call with the list b.pdf, b.pdf, a.PNG, an image and a
\* conference URL has returned IMAGE, the three ATTACH lines in that order,
\* then CONFERENCE.
C14_Witness ==
    /\ pc = "returned"
    /\ args.attachments = <<<<"b", ".", "p", "d", "f">>, <<"b", ".", "p", "d", "f">>, <<"a", ".", "P", "N", "G">>>>
    /\ LineName(lines[13]) = <<"I", "M", "A", "G", "E">>
    /\ lines[14] = <<"A", "T", "T", "A", "C", "H", ";", "F", "M", "T", "T", "Y", "P", "E", "=", "a", "p", "p", "l", "i", "c", "a", "t", "i", "o", "n", "/", "p", "d", "f", ":", "b", ".", "p", "d", "f">>
    /\ lines[15] = lines[14]
    /\ lines[16] = <<"A", "T", "T", "A", "C", "H", ";", "F", "M", "T", "T", "Y", "P", "E", "=", "i", "m", "a", "g", "e", "/", "p", "n", "g", ":", "a", ".", "P", "N", "G">>
    /\ LineName(lines[17]) = <<"C", "O", "N", "F", "E", "R", "E", "N", "C", "E">>

\* Two characters are the same letter, in either case, or the same character.
SameIgnoringCase(c, d) ==
    c = d \/ \E k \in 1..26 : {c, d} = {UpperCase[k], LowerCase[k]}

\* s ends with suffix when the case of letters is ignored.
EndsIgnoringCase(s, suffix) ==
    /\ Len(s) >= Len(suffix)
    /\ \A i \in 1..Len(suffix) : SameIgnoringCase(s[Len(s) - Len(suffix) + i], suffix[i])

\* The media type the suffix of a URI stands for, the empty text for none.
FmtType(uri) ==
    IF EndsIgnoringCase(uri, <<".", "p", "d", "f">>) THEN <<"a", "p", "p", "l", "i", "c", "a", "t", "i", "o", "n", "/", "p", "d", "f">>
    ELSE IF EndsIgnoringCase(uri, <<".", "j", "p", "g">>) \/ EndsIgnoringCase(uri, <<".", "j", "p", "e", "g">>)
    THEN <<"i", "m", "a", "g", "e", "/", "j", "p", "e", "g">>
    ELSE IF EndsIgnoringCase(uri, <<".", "p", "n", "g">>) THEN <<"i", "m", "a", "g", "e", "/", "p", "n", "g">>
    ELSE IF EndsIgnoringCase(uri, <<".", "d", "o", "c">>) \/ EndsIgnoringCase(uri, <<".", "d", "o", "c", "x">>)
    THEN <<"a", "p", "p", "l", "i", "c", "a", "t", "i", "o", "n", "/", "m", "s", "w", "o", "r", "d">>
    ELSE <<>>

\* C15: each ATTACH line is ATTACH;FMTTYPE=<type>:<uri>, the type chosen by
\* the URI's suffix whatever its letter case (.pdf application/pdf, .jpg and
\* .jpeg image/jpeg, .png image/png, .doc and .docx application/msword), or
\* ATTACH:<uri> for any other URI; the URI keeps its letter case.
C15_FmtTypeBySuffix ==
    pc = "returned" =>
        /\ Cardinality(AttachPlaces) = Len(Attachments)
        /\ \A k \in 1..Len(Attachments) :
              LET uri == Attachments[k]
                  line == EventBody[(CHOOSE i \in AttachPlaces : \A j \in AttachPlaces : i <= j) + k - 1]
              IN  line = (IF FmtType(uri) = <<>>
                          THEN <<"A", "T", "T", "A", "C", "H", ":">> \o uri
                          ELSE <<"A", "T", "T", "A", "C", "H", ";", "F", "M", "T", "T", "Y", "P", "E", "=">> \o FmtType(uri) \o <<":">> \o uri)

\* C15 witness: a call with x.JPG, y.Jpeg, z.doc, w.DOCX and v.pdfx has
\* returned their lines, the last one without FMTTYPE.
C15_Witness ==
    /\ pc = "returned"
    /\ args.attachments = <<<<"x", ".", "J", "P", "G">>, <<"y", ".", "J", "p", "e", "g">>, <<"z", ".", "d", "o", "c">>, <<"w", ".", "D", "O", "C", "X">>, <<"v", ".", "p", "d", "f", "x">>>>
    /\ args.image = None
    /\ lines[13] = <<"A", "T", "T", "A", "C", "H", ";", "F", "M", "T", "T", "Y", "P", "E", "=", "i", "m", "a", "g", "e", "/", "j", "p", "e", "g", ":", "x", ".", "J", "P", "G">>
    /\ lines[14] = <<"A", "T", "T", "A", "C", "H", ";", "F", "M", "T", "T", "Y", "P", "E", "=", "i", "m", "a", "g", "e", "/", "j", "p", "e", "g", ":", "y", ".", "J", "p", "e", "g">>
    /\ lines[16] = <<"A", "T", "T", "A", "C", "H", ";", "F", "M", "T", "T", "Y", "P", "E", "=", "a", "p", "p", "l", "i", "c", "a", "t", "i", "o", "n", "/", "m", "s", "w", "o", "r", "d", ":", "w", ".", "D", "O", "C", "X">>
    /\ lines[17] = <<"A", "T", "T", "A", "C", "H", ":", "v", ".", "p", "d", "f", "x">>

\* The places of a text where a CR LF pair begins.
Breaks(doc) == {i \in 1..(Len(doc) - 1) : doc[i] = CR /\ doc[i + 1] = LF}

\* Every LF of the text is the second half of a CR LF pair.
NoBareLineFeed(doc) == \A i \in 1..Len(doc) : doc[i] = LF => (i - 1) \in Breaks(doc)

\* C16: the returned document is the folded lines joined with CR LF, it ends
\* with CR LF, and no LF in it stands without a CR before it, whatever the
\* fields hold.
C16_CrlfThroughout ==
    pc = "returned" =>
        /\ ret = str_join(CRLF, [i \in 1..Len(lines) |-> fold_line(lines[i], DefaultMaxLength)]) \o CRLF
        /\ endswith(ret, CRLF)
        /\ NoBareLineFeed(ret)

\* The values the document takes over as they are: every field but the four
\* that go through escape_text.
VerbatimValues(a) ==
    {a[f] : f \in {"timezone", "status", "url", "organizer_email", "image", "conference_url", "geo"}}
    \cup (IF a.attachments = None THEN {} ELSE {a.attachments[k] : k \in 1..Len(a.attachments)})

\* The part of C16 the code keeps: the document is the folded lines joined
\* with CR LF and ends with CR LF; no LF stands without a CR when no field
\* copied as it is holds a LF.
CrlfThroughoutWithoutRawLineFeed ==
    pc = "returned" =>
        /\ ret = str_join(CRLF, [i \in 1..Len(lines) |-> fold_line(lines[i], DefaultMaxLength)]) \o CRLF
        /\ endswith(ret, CRLF)
        /\ (\A v \in VerbatimValues(args) : v = None \/ ~Contains(v, LF)) => NoBareLineFeed(ret)

\* The places where the physical lines of a document begin: its first
\* character and what follows each CR LF.
PhysicalStarts(doc) == {1} \cup {i + 2 : i \in Breaks(doc)}

\* The places where a physical line equal to the given text begins.
PlacesOf(doc, text) ==
    {st \in PhysicalStarts(doc) :
        /\ (st + Len(text)) \in Breaks(doc)
        /\ SubSeq(doc, st, st + Len(text) - 1) = text}

\* Among the physical lines of the document there is one BEGIN:VCALENDAR, the
\* first line, one END:VCALENDAR, the last line, and between them one
\* BEGIN:VEVENT followed by one END:VEVENT.
SingleEvent(doc) ==
    LET bc == PlacesOf(doc, BEGIN_VCALENDAR)
        be == PlacesOf(doc, BEGIN_VEVENT)
        ee == PlacesOf(doc, END_VEVENT)
        ec == PlacesOf(doc, END_VCALENDAR)
    IN  /\ bc = {1}
        /\ ec = {Len(doc) - Len(END_VCALENDAR) - 1}
        /\ Cardinality(be) = 1
        /\ Cardinality(ee) = 1
        /\ \A b \in be, e \in ee : 1 < b /\ b < e /\ e < Len(doc) - Len(END_VCALENDAR) - 1

\* C17: whatever characters the fields hold, the document is one VCALENDAR
\* with one VEVENT in it.
C17_SingleCalendarSingleEvent ==
    pc = "returned" => SingleEvent(ret)

\* The part of C17 the code keeps: one VCALENDAR with one VEVENT when no
\* field copied as it is holds a CR LF pair.
SingleEventWithoutLineBreaks ==
    (pc = "returned" /\ \A v \in VerbatimValues(args) : v = None \/ Breaks(v) = {}) =>
        SingleEvent(ret)

\* ------------------------- specification: generate_ics(...) called again

MaxCalls == 2

\* The events the calls are made with.
TwiceArgs ==
    {DefaultArgs,
     [DefaultArgs EXCEPT !.location = SampleValue("location"),
                         !.attachments = <<<<"a", ".", "P", "D", "F">>>>],
     [DefaultArgs EXCEPT !.title = LongTitle, !.output_path = <<"o", ".", "i", "c", "s">>],
     EmptyStringsArgs,
     [DefaultArgs EXCEPT !.end = BadDatetime]}

InitTwice ==
    /\ pc = "call"
    /\ args \in TwiceArgs
    /\ argv = DefaultArgs
    /\ RunLocalsUnset
    /\ now \in Clocks
    /\ fs_writable = TRUE
    /\ libc_pads_year = FALSE
    /\ EscapeIdle
    /\ FoldIdle
    /\ DatetimeIdle

\* The caller calls generate_ics once more in the same process, with the same
\* or another event; the clock may have moved on. The locals of the call
\* that returned are gone.
call_again ==
    /\ pc = "returned"
    /\ Len(history) < MaxCalls
    /\ uuid_issued # Uuids
    /\ args' \in TwiceArgs
    /\ now' \in Clocks
    /\ uid' = None /\ dtstamp' = None
    /\ dtstart_formatted' = None /\ dtend_formatted' = None
    /\ lines' = <<>> /\ ics_content' = None /\ ret' = None
    /\ pc' = "call"
    /\ UNCHANGED <<argv, stdout, stderr, file, exit_status, uuid_issued, clock_reads,
                   fs_writable, history>>
    /\ UNCHANGED <<escape_vars, fold_vars, datetime_vars, libc_pads_year>>

NextTwice == generate_ics_return \/ generate_ics_exit \/ call_again

SpecTwice == InitTwice /\ [][NextTwice]_vars

\* C18: two calls in one process with the same fields return different UIDs,
\* and the later document is the earlier one with its UID and DTSTAMP lines
\* replaced by those of the later call's UID and clock reading; nothing else
\* of the earlier call shows in it.
C18_FreshUidSameDocument ==
    \A i, j \in 1..Len(history) :
        /\ i < j => history[i].uid # history[j].uid
        /\ (i < j /\ history[i].args = history[j].args) =>
            /\ history[i].uid # history[j].uid
            /\ Len(history[j].lines) = Len(history[i].lines)
            /\ \A k \in 1..Len(history[i].lines) :
                  k \notin {7, 8} => history[j].lines[k] = history[i].lines[k]
            /\ history[j].ret =
                  ics_document([history[i].lines EXCEPT
                                   ![7] = <<"U", "I", "D", ":">> \o history[j].uid,
                                   ![8] = <<"D", "T", "S", "T", "A", "M", "P", ":">> \o history[j].dtstamp])

\* C18 witness: the same event with a long title was generated twice, at
\* different clock readings; the two documents differ.
C18_Witness ==
    /\ pc = "returned"
    /\ Len(history) = 2
    /\ history[1].args = history[2].args
    /\ history[1].args.title = LongTitle
    /\ history[1].uid # history[2].uid
    /\ history[1].dtstamp # history[2].dtstamp
    /\ history[1].ret # history[2].ret
    /\ ret = history[2].ret

\* ------------------ specification: fold_line and generate_ics with titles

\* Titles without CR or LF: short; one whose escaped comma straddles the
\* cut; one with spaces at the cut; one that fills the line exactly; one
\* folded twice.
Titles ==
    {<<"E", "v">>,
     Rep("t", 66) \o <<",", "x">>,
     Rep("t", 66) \o <<" ", " ", "x">>,
     Rep("t", 67),
     Rep("t", 200) \o <<";">>}

\* A description that is folded too.
LongDescription == Rep("d", 70) \o <<LF, "x">>

TitleArgs ==
    {[DefaultArgs EXCEPT !.title = t, !.description = d, !.timezone = tz] :
        t \in Titles,
        d \in {None, LongDescription},
        tz \in TimezoneArgs}

\* Either fold_line is called with a line and a limit, or generate_ics with
\* one of the titles.
InitUnfold ==
    \/ InitFold
    \/ /\ pc = "call"
       /\ args \in TitleArgs
       /\ argv = DefaultArgs
       /\ RunLocalsUnset
       /\ now \in Clocks
       /\ fs_writable = TRUE
       /\ libc_pads_year = FALSE
       /\ EscapeIdle
       /\ FoldIdle
       /\ DatetimeIdle

NextUnfold == fold_call \/ generate_ics_return

SpecUnfold == InitUnfold /\ [][NextUnfold]_vars

\* Unfolding: every CR LF followed by a space is taken out, from left to
\* right; st is where the text not yet read begins, folds the places where
\* a CR LF and space begin.
RECURSIVE unfold_from(_, _, _)
unfold_from(text, st, folds) ==
    LET ahead == {i \in folds : i >= st}
    IN  IF ahead = {} THEN SubSeq(text, st, Len(text))
        ELSE SubSeq(text, st, Least(ahead) - 1) \o unfold_from(text, Least(ahead) + 3, ahead)

unfold(text) ==
    unfold_from(text, 1, {i \in 1..(Len(text) - 2) :
                             text[i] = CR /\ text[i + 1] = LF /\ text[i + 2] = " "})

\* C22: for a line without CR and LF, unfolding what fold_line returns
\* gives the line back; and for a title without CR and LF, the SUMMARY line
\* of the unfolded document is SUMMARY: and the escaped title.
C22_FoldingReversible ==
    /\ (f_pc = "done" /\ ~Contains(f_line, CR) /\ ~Contains(f_line, LF)) =>
            unfold(f_out) = f_line
    /\ (pc = "returned" /\ ~Contains(args.title, CR) /\ ~Contains(args.title, LF)) =>
            split_crlf(unfold(ret))[11] = <<"S", "U", "M", "M", "A", "R", "Y", ":">> \o escape_text(args.title)

\* C22 witness: an event whose title of 201 characters took three physical
\* lines has been generated, and its SUMMARY line unfolds to the title.
C22_Witness ==
    /\ pc = "returned"
    /\ args.title = Rep("t", 200) \o <<";">>
    /\ args.description = None
    /\ Len(split_crlf(ret)) = 17
    /\ Len(split_crlf(ret)[11]) = 75
    /\ split_crlf(ret)[12][1] = " "
    /\ Len(split_crlf(unfold(ret))) = 15
    /\ split_crlf(unfold(ret))[11] = <<"S", "U", "M", "M", "A", "R", "Y", ":">> \o Rep("t", 200) \o <<BSL, ";">>

\* ------------------------------------------------- specification: main()

RequiredOptions == {"title", "start", "end", "timezone"}

\* choices=[...] of --status
StatusChoices == {<<"C", "O", "N", "F", "I", "R", "M", "E", "D">>, <<"T", "E", "N", "T", "A", "T", "I", "V", "E">>, <<"C", "A", "N", "C", "E", "L", "L", "E", "D">>}

\* Mutant: --status takes any value (no choices=).
usage_error_any_status(av) == \E o \in RequiredOptions : av[o] = None

\* parser.parse_args() rejects the command line: a required option is not
\* given, or --status is given a value that is not one of its choices.
usage_error(av) ==
    \/ \E o \in RequiredOptions : av[o] = None
    \/ av.status # None /\ av.status \notin StatusChoices

\* What argparse prints to standard error before it exits with status 2, and
\* what the interpreter prints for an exception nobody catches.
UsageDiagnostic(av) == [msg |-> "usage", dt_str |-> None]
Traceback == [msg |-> "Traceback", dt_str |-> None]

\* Command lines: each required option given or not, good and bad datetimes,
\* --status not given, valid or invalid, a few optional options, --output
\* given or not. An option that is not given is None (for --status, the
\* default).
MainArgvs ==
    {[DefaultArgs EXCEPT
        !.title = t, !.start = s, !.end = e, !.timezone = z, !.status = st,
        !.location = l, !.attachments = at, !.output_path = o] :
        t \in {None, <<"E", "v">>},
        s \in {None, <<"2", "0", "2", "5", "-", "0", "3", "-", "1", "5", "T", "1", "9", ":", "0", "0", ":", "0", "0", "Z">>, BadDatetime},
        e \in {None, <<"2", "0", "2", "5", "-", "0", "3", "-", "1", "5", "T", "2", "2", ":", "0", "0", ":", "0", "0">>, BadDatetime},
        z \in {None, <<"U", "T", "C">>},
        st \in {None, <<"T", "E", "N", "T", "A", "T", "I", "V", "E">>, <<"I", "N", "V", "A", "L", "I", "D">>},
        l \in {None, <<"L", ",", "x">>},
        at \in {None, <<<<"a", ".", "P", "D", "F">>>>},
        o \in {None, <<>>, <<"o", ".", "i", "c", "s">>, <<"/", "t", "/", "o">>}}

Init ==
    /\ pc = "main"
    /\ argv \in MainArgvs
    /\ args = DefaultArgs
    /\ RunLocalsUnset
    /\ now \in Clocks
    /\ fs_writable \in BOOLEAN
    /\ libc_pads_year = FALSE
    /\ EscapeIdle
    /\ FoldIdle
    /\ DatetimeIdle

OtherVars == <<escape_vars, fold_vars, datetime_vars, libc_pads_year, argv, now, fs_writable,
               history>>

\* main(): parse_args() fails; argparse prints the usage error and exits 2.
main_usage_error ==
    /\ pc = "main"
    /\ usage_error(argv)
    /\ stderr' = Append(stderr, UsageDiagnostic(argv))
    /\ exit_status' = 2
    /\ pc' = "exited"
    /\ UNCHANGED <<args, uid, dtstamp, dtstart_formatted, dtend_formatted, lines,
                   ics_content, ret, stdout, file, uuid_issued, clock_reads>>
    /\ UNCHANGED OtherVars

\* main(): parse_args() succeeds and generate_ics is called with the options.
main_call ==
    /\ pc = "main"
    /\ ~usage_error(argv)
    /\ args' = [argv EXCEPT !.status = IF argv.status = None
                                        THEN <<"C", "O", "N", "F", "I", "R", "M", "E", "D">> ELSE argv.status]
    /\ pc' = "uid"
    /\ UNCHANGED <<uid, dtstamp, dtstart_formatted, dtend_formatted, lines, ics_content,
                   ret, stdout, stderr, file, exit_status, uuid_issued, clock_reads>>
    /\ UNCHANGED OtherVars

\* uid = f"{uuid.uuid4()}@claude.ai"
take_uid ==
    /\ pc = "uid"
    /\ \E u \in Uuids \ uuid_issued :
          /\ uuid_issued' = uuid_issued \cup {u}
          /\ uid' = uid_of(u)
    /\ pc' = "dtstamp"
    /\ UNCHANGED <<args, dtstamp, dtstart_formatted, dtend_formatted, lines, ics_content,
                   ret, stdout, stderr, file, exit_status, clock_reads>>
    /\ UNCHANGED OtherVars

\* Mutant: the clock is read a second time for the timestamp.
take_dtstamp_reads_twice ==
    /\ pc = "dtstamp"
    /\ clock_reads' = clock_reads + 2
    /\ dtstamp' = dtstamp_of(now)
    /\ pc' = "format_start"
    /\ UNCHANGED <<args, uid, dtstart_formatted, dtend_formatted, lines, ics_content,
                   ret, stdout, stderr, file, exit_status, uuid_issued>>
    /\ UNCHANGED OtherVars

\* dtstamp = datetime.now(utc).strftime(...)
take_dtstamp ==
    /\ pc = "dtstamp"
    /\ clock_reads' = clock_reads + 1
    /\ dtstamp' = dtstamp_of(now)
    /\ pc' = "format_start"
    /\ UNCHANGED <<args, uid, dtstart_formatted, dtend_formatted, lines, ics_content,
                   ret, stdout, stderr, file, exit_status, uuid_issued>>
    /\ UNCHANGED OtherVars

\* dtstart_formatted = format_datetime(start, timezone)
format_start ==
    /\ pc = "format_start"
    /\ \E r \in {format_datetime(args.start, args.timezone)} :
          IF r.ok
          THEN /\ dtstart_formatted' = r.val
               /\ pc' = "format_end"
               /\ UNCHANGED <<stderr, exit_status>>
          ELSE /\ stderr' = Append(stderr, DatetimeDiagnostic(args.start))
               /\ exit_status' = 1
               /\ pc' = "exited"
               /\ UNCHANGED dtstart_formatted
    /\ UNCHANGED <<args, uid, dtstamp, dtend_formatted, lines, ics_content,
                   ret, stdout, file, uuid_issued, clock_reads>>
    /\ UNCHANGED OtherVars

\* dtend_formatted = format_datetime(end, timezone)
format_end ==
    /\ pc = "format_end"
    /\ \E r \in {format_datetime(args.end, args.timezone)} :
          IF r.ok
          THEN /\ dtend_formatted' = r.val
               /\ pc' = "build"
               /\ UNCHANGED <<stderr, exit_status>>
          ELSE /\ stderr' = Append(stderr, DatetimeDiagnostic(args.end))
               /\ exit_status' = 1
               /\ pc' = "exited"
               /\ UNCHANGED dtend_formatted
    /\ UNCHANGED <<args, uid, dtstamp, dtstart_formatted, lines, ics_content,
                   ret, stdout, file, uuid_issued, clock_reads>>
    /\ UNCHANGED OtherVars

\* The list of lines, the folding and the join: ics_content is complete.
build_document ==
    /\ pc = "build"
    /\ \E ls \in {event_lines(args, uid, dtstamp, dtstart_formatted, dtend_formatted)} :
          /\ lines' = ls
          /\ ics_content' = ics_document(ls)
    /\ pc' = "sink"
    /\ UNCHANGED <<args, uid, dtstamp, dtstart_formatted, dtend_formatted,
                   ret, stdout, stderr, file, exit_status, uuid_issued, clock_reads>>
    /\ UNCHANGED OtherVars

\* output_file.write_text(ics_content, encoding='utf-8')
write_file ==
    /\ pc = "sink"
    /\ Truthy(args.output_path)
    /\ fs_writable
    /\ file' = ics_content
    /\ pc' = "confirm"
    /\ UNCHANGED <<args, uid, dtstamp, dtstart_formatted, dtend_formatted, lines,
                   ics_content, ret, stdout, stderr, exit_status, uuid_issued, clock_reads>>
    /\ UNCHANGED OtherVars

\* write_text raises OSError; nothing catches it and the process ends.
write_file_fails ==
    /\ pc = "sink"
    /\ Truthy(args.output_path)
    /\ ~fs_writable
    /\ stderr' = Append(stderr, Traceback)
    /\ exit_status' = 1
    /\ pc' = "exited"
    /\ UNCHANGED <<args, uid, dtstamp, dtstart_formatted, dtend_formatted, lines,
                   ics_content, ret, stdout, file, uuid_issued, clock_reads>>
    /\ UNCHANGED OtherVars

\* print(f"... Calendar file created: {output_file.absolute()}")
print_confirmation ==
    /\ pc = "confirm"
    /\ stdout' = Append(stdout, PrintedConfirmation(absolute(args.output_path)))
    /\ pc' = "return"
    /\ UNCHANGED <<args, uid, dtstamp, dtstart_formatted, dtend_formatted, lines,
                   ics_content, ret, stderr, file, exit_status, uuid_issued, clock_reads>>
    /\ UNCHANGED OtherVars

\* Mutant: the document is printed whether or not an output path is given.
print_document_always ==
    /\ pc = "sink"
    /\ stdout' = Append(stdout, PrintedDocument(ics_content))
    /\ pc' = "return"
    /\ UNCHANGED <<args, uid, dtstamp, dtstart_formatted, dtend_formatted, lines,
                   ics_content, ret, stderr, file, exit_status, uuid_issued, clock_reads>>
    /\ UNCHANGED OtherVars

\* print(ics_content)
print_document ==
    /\ pc = "sink"
    /\ ~Truthy(args.output_path)
    /\ stdout' = Append(stdout, PrintedDocument(ics_content))
    /\ pc' = "return"
    /\ UNCHANGED <<args, uid, dtstamp, dtstart_formatted, dtend_formatted, lines,
                   ics_content, ret, stderr, file, exit_status, uuid_issued, clock_reads>>
    /\ UNCHANGED OtherVars

\* return ics_content; main() returns and the process exits with status 0.
return_content ==
    /\ pc = "return"
    /\ ret' = ics_content
    /\ exit_status' = 0
    /\ pc' = "done"
    /\ UNCHANGED <<args, uid, dtstamp, dtstart_formatted, dtend_formatted, lines,
                   ics_content, stdout, stderr, file, uuid_issued, clock_reads>>
    /\ UNCHANGED OtherVars

Next ==
    \/ main_usage_error
    \/ main_call
    \/ take_uid
    \/ take_dtstamp
    \/ format_start
    \/ format_end
    \/ build_document
    \/ write_file
    \/ write_file_fails
    \/ print_confirmation
    \/ print_document
    \/ return_content

Spec == Init /\ [][Next]_vars

\* How far a run has come: every step moves pc forward in this list.
PcOrder == <<"main", "uid", "dtstamp", "format_start", "format_end", "build", "sink",
             "confirm", "return", "done", "exited">>
PcRank(p) == CHOOSE k \in 1..Len(PcOrder) : PcOrder[k] = p

\* A command line with a usage error: a required option missing, a --status
\* outside its choices, or a start or end that does not parse.
HasUsageError(av) ==
    \/ \E o \in RequiredOptions : av[o] = None
    \/ av.status # None /\ av.status \notin StatusChoices
    \/ av.start # None /\ ~format_datetime(av.start, av.timezone).ok
    \/ av.end # None /\ ~format_datetime(av.end, av.timezone).ok

\* C7: a run with a usage error ends with a non-zero exit status after a
\* diagnostic on standard error, and at no time has the file or standard
\* output received anything. (It ends: while it has not exited it can take a
\* step, and every step moves it forward.)
C7_UsageErrorsBeforeOutput ==
    /\ [](HasUsageError(argv) =>
            /\ stdout = <<>>
            /\ file = None
            /\ exit_status # 0
            /\ exit_status # Running => stderr # <<>>
            /\ exit_status = Running => ENABLED Next)
    /\ [][PcRank(pc') > PcRank(pc)]_vars

\* C7 witness: a run with a good start and a bad end has exited with status 1
\* and the diagnostic naming the end string, after the UID and the timestamp
\* were taken.
C7_Witness ==
    /\ pc = "exited"
    /\ argv.end = BadDatetime
    /\ dtstart_formatted = <<"2", "0", "2", "5", "0", "3", "1", "5", "T", "1", "9", "0", "0", "0", "0">>
    /\ exit_status = 1
    /\ stderr = <<DatetimeDiagnostic(BadDatetime)>>
    /\ stdout = <<>>
    /\ file = None

\* A file, once there, holds the finished document of a call with a path.
FileHoldsDocument ==
    (file # None) =>
        (Truthy(args.output_path) /\ file = ics_content /\ ics_content = ics_document(lines))

\* A confirmation is on standard output only with the document in the file,
\* and it names the absolute path.
ConfirmedAfterWrite ==
    \A k \in 1..Len(stdout) :
        (stdout[k].what = "confirmation") =>
            (file # None /\ file = ics_content /\ stdout[k].text = absolute(args.output_path))

\* With a path the document is not printed; without one it is what is
\* printed, and there is no file.
PrintedOnlyWithoutPath ==
    IF Truthy(args.output_path)
    THEN \A k \in 1..Len(stdout) : stdout[k].what # "document"
    ELSE file = None /\ \A k \in 1..Len(stdout) : stdout[k] = PrintedDocument(ics_content)

\* What a call that has returned leaves behind.
ReturnedDocument ==
    (pc = "done") =>
        (/\ ret = ics_content
         /\ ret = ics_document(lines)
         /\ IF Truthy(args.output_path)
            THEN file = ret /\ stdout = <<PrintedConfirmation(absolute(args.output_path))>>
            ELSE stdout = <<PrintedDocument(ret)>>)

ConsultedByPosition ==
    /\ pc \in {"main", "uid"} => (uuid_issued = {} /\ clock_reads = 0)
    /\ pc = "dtstamp" => (Cardinality(uuid_issued) = 1 /\ clock_reads = 0)
    /\ pc \in {"format_start", "format_end", "build", "sink", "confirm", "return", "done"} =>
            (Cardinality(uuid_issued) = 1 /\ clock_reads = 1)
    /\ (pc = "exited" /\ exit_status = 2) => (uuid_issued = {} /\ clock_reads = 0)
    /\ (pc = "exited" /\ exit_status = 1) => (Cardinality(uuid_issued) = 1 /\ clock_reads = 1)

\* The call ended in format_datetime: no line was built.
FailedOnDatetime == pc = "exited" /\ exit_status = 1 /\ lines = <<>>

\* Such a call has its UID and its timestamp and has produced nothing.
DrawnButNoOutput ==
    FailedOnDatetime =>
        (/\ uid \in {uid_of(u) : u \in uuid_issued}
         /\ dtstamp = dtstamp_of(now)
         /\ ics_content = None /\ ret = None
         /\ stdout = <<>> /\ file = None)

\* A step that normalizes start or end, or reports one of them unparseable.
NormalizesDatetime ==
    \/ dtstart_formatted' # dtstart_formatted
    \/ dtend_formatted' # dtend_formatted
    \/ (pc \in {"format_start", "format_end"} /\ pc' = "exited")

\* C23: in a call of generate_ics the identifier source and the clock are
\* each consulted exactly once, the identifier in the step that makes the
\* UID and the clock in the step that makes the timestamp; the clock is only
\* read; both have been consulted when start and end are normalized, so a
\* call that fails on an unparseable datetime has drawn one UID and read
\* the clock once, and has neither printed nor written anything.
C23_SourcesConsultedOnce ==
    /\ [](ConsultedByPosition /\ DrawnButNoOutput)
    /\ [][(uuid_issued' # uuid_issued) =>
              (pc = "uid" /\ uuid_issued \subseteq uuid_issued'
                   /\ Cardinality(uuid_issued') = Cardinality(uuid_issued) + 1)]_vars
    /\ [][(clock_reads' # clock_reads) =>
              (pc = "dtstamp" /\ clock_reads' = clock_reads + 1)]_vars
    /\ [][now' = now]_vars
    /\ [][NormalizesDatetime =>
              (/\ Cardinality(uuid_issued) = 1 /\ clock_reads = 1
               /\ uid # None /\ dtstamp # None
               /\ UNCHANGED <<uuid_issued, clock_reads, uid, dtstamp>>)]_vars

\* C23 witness: a run whose start does not parse has exited with status 1
\* and the diagnostic naming the start string; one identifier was drawn and
\* the clock was read once, and nothing was printed or written.
C23_Witness ==
    /\ pc = "exited"
    /\ args.start = BadDatetime
    /\ exit_status = 1
    /\ stderr = <<DatetimeDiagnostic(BadDatetime)>>
    /\ Cardinality(uuid_issued) = 1
    /\ clock_reads = 1
    /\ uid # None
    /\ dtstamp = dtstamp_of(now)
    /\ dtstart_formatted = None
    /\ stdout = <<>>
    /\ file = None

====
